---- MODULE Spec2Model ----
(***************************************************************************)
(* State-machine model of the ML core of the Smart Finance Assistant       *)
(* backend: DataPreprocessor, TransactionCategorizer, SpendingPredictor,   *)
(* BudgetRecommendationEngine, ModelEvaluator and ModelTrainer, together   *)
(* with the artifact directory they share.                                 *)
(*                                                                         *)
(* Abstraction.  A fitted object (estimator, scaler, vectorizer, label     *)
(* encoder, category mapping, scorecard) is represented by WHAT it was     *)
(* fitted on: the id of the data set ("run", 0 = never fitted) and, for    *)
(* an estimator, which part of that data set ("split" = the 80% training   *)
(* split, "full" = all rows, ...).  Two fitted objects answer alike        *)
(* exactly when these tags are equal.  Python object identity is kept:     *)
(* best_model is either an alias of an entry of self.models (after a       *)
(* train) or an independent copy (after joblib.load).                      *)
(***************************************************************************)
EXTENDS Integers, Sequences, FiniteSets, TLC

\* ------------------------------------------------------------------ bounds
MaxData == 2      \* distinct training data sets (runs) 1..MaxData
MaxScore == 1     \* cross-validation scores are drawn from 0..MaxScore
MaxTrains == 2    \* training calls in one behaviour

DataIds == 1..MaxData

\* ------------------------------------------------------------- estimators
Unfitted == [run |-> 0, fit |-> "none"]
Fitted(d, part) == [run |-> d, fit |-> part]

\* self.best_model: None, a reference to self.models[name], or an object of
\* its own (what joblib.load returns)
NoModel == [kind |-> "none", name |-> "none", est |-> Unfitted]
Alias(n) == [kind |-> "alias", name |-> n, est |-> Unfitted]
Copy(e) == [kind |-> "copy", name |-> "none", est |-> e]

\* the estimator object a best_model reference denotes
Deref(models, bm) == IF bm.kind = "alias" THEN models[bm.name] ELSE bm.est

\* results of calls: a value, or the exception the call raised
Ok(v) == [status |-> "ok", error |-> "none", value |-> v]
Raise(e) == [status |-> "raised", error |-> e, value |-> <<>>]

\* ----------------------------------------------------------- DataPreprocessor
PreprocessorInit == [scaler |-> 0, tfidf_vectorizer |-> 0, label_encoder |-> 0,
                     is_fitted |-> FALSE]

\* columns an input batch can carry
RequiredColumns == {"description", "amount", "date"}
KeptColumns == {"id", "description", "amount", "date"}
\* the columns of a row of the transaction store
AllColumns == {"id", "user_id", "description", "amount", "date", "merchant"}

\* preprocess_transactions: the exception it raises on a batch with columns
\* cols, or "none"
preprocess_transactions(cols) ==
    IF ~(RequiredColumns \subseteq cols) THEN "ValueError: required column"
    ELSE IF ~(KeptColumns \subseteq cols) THEN "KeyError: id"
    ELSE "none"

\* prepare_features_for_training: fits vectorizer, scaler and label encoder
\* in place on data set d
prepare_features_for_training(pp, d) ==
    [scaler |-> d, tfidf_vectorizer |-> d, label_encoder |-> d, is_fitted |-> TRUE]

\* -------------------------------------------------------- TransactionCategorizer
CatNames == <<"random_forest", "logistic_regression", "naive_bayes">>
CatNameSet == {CatNames[i] : i \in 1..Len(CatNames)}

NoPerformance == [run |-> 0, cv |-> <<>>]

CategorizerInit ==
    [models |-> [n \in CatNameSet |-> Unfitted],
     best_model |-> NoModel,
     best_model_name |-> "none",
     model_performance |-> NoPerformance,
     category_mapping |-> 0,
     is_trained |-> FALSE,
     preprocessor |-> PreprocessorInit]

\* prepare_training_data: rebuilds category_mapping from categories_df
prepare_training_data(c, d) == [c EXCEPT !.category_mapping = d]

\* first key in iteration order with the maximal value (Python max(keys, key))
RECURSIVE ArgMaxFrom(_, _, _, _)
ArgMaxFrom(names, score, i, best) ==
    IF i > Len(names) THEN best
    ELSE ArgMaxFrom(names, score, i + 1,
                    IF score[names[i]] > score[best] THEN names[i] ELSE best)
ArgMaxFirst_Last(names, score) ==
    names[CHOOSE i \in 1..Len(names) :
             /\ \A j \in 1..Len(names) : score[names[j]] <= score[names[i]]
             /\ \A j \in (i + 1)..Len(names) : score[names[j]] < score[names[i]]]
ArgMaxFirst(names, score) == ArgMaxFrom(names, score, 2, names[1])

\* the candidate loop (lines 108-143): every candidate is fitted IN PLACE on
\* the 80% split; out[n] = -1 when training of n raised (the estimator keeps
\* its state and the score is 0), else its mean cv accuracy
FitCandidates(models, d, out) ==
    [n \in DOMAIN models |-> IF out[n] = -1 THEN models[n] ELSE Fitted(d, "split")]
CandidateScores(out) == [n \in DOMAIN out |-> IF out[n] = -1 THEN 0 ELSE out[n]]

\* train_models, as the sequence of its state changes.  inp:
\*   data    the data set (transactions_df, categories_df)
\*   raiseAt where an exception leaves the call: "rows" (fewer than 50 merged
\*           rows), "split" (train_test_split), "refit" (final fit), "none"
\*   out     outcome of each candidate
train_step_prepare(c, inp) == prepare_training_data(c, inp.data)
train_step_features(c, inp) ==
    [c EXCEPT !.preprocessor = prepare_features_for_training(c.preprocessor, inp.data)]
train_step_candidates(c, inp) ==
    [c EXCEPT !.models = FitCandidates(c.models, inp.data, inp.out)]
train_step_select_name(c, inp) ==
    [c EXCEPT !.best_model_name = ArgMaxFirst(CatNames, CandidateScores(inp.out))]
train_step_select_model(c, inp) ==
    [c EXCEPT !.best_model = Alias(c.best_model_name)]
train_step_performance(c, inp) ==
    [c EXCEPT !.model_performance = [run |-> inp.data, cv |-> CandidateScores(inp.out)]]
train_step_refit(c, inp) ==
    [c EXCEPT !.models[c.best_model_name] = Fitted(inp.data, "full")]
train_step_trained(c, inp) == [c EXCEPT !.is_trained = TRUE]

train_models(c, inp) ==
    LET c1 == train_step_prepare(c, inp)
        c2 == train_step_features(c1, inp)
        c3 == train_step_candidates(c2, inp)
        c4 == train_step_performance(
                  train_step_select_model(train_step_select_name(c3, inp), inp), inp)
        c5 == train_step_refit(c4, inp)
        c6 == train_step_trained(c5, inp)
    IN  IF inp.raiseAt = "rows"
          THEN [c |-> c1, res |-> Raise("ValueError: need at least 50")]
        ELSE IF inp.raiseAt = "split"
          THEN [c |-> c2, res |-> Raise("ValueError: train_test_split")]
        ELSE IF inp.raiseAt = "refit"
          THEN [c |-> c4, res |-> Raise("ValueError: fit")]
        ELSE [c |-> c6, res |-> Ok(CandidateScores(inp.out))]


\* transform_features guards on the preprocessor's own fitted flag; the
\* estimator raises NotFittedError when it was never fitted
\* predict_category: what the call answers for a transaction with columns
\* cols.  The answer of a successful call is determined by the objects it
\* reads: estimator, model name, vectorizer, scaler, label encoder, mapping.
predict_category(c, cols) ==
    IF ~c.is_trained THEN Raise("ValueError: Model not trained")
    ELSE IF preprocess_transactions(cols) # "none"
      THEN Raise(preprocess_transactions(cols))
    ELSE IF ~c.preprocessor.is_fitted
      THEN Raise("ValueError: Preprocessors not fitted")
    ELSE IF Deref(c.models, c.best_model).fit = "none"
      THEN Raise("NotFittedError")
    ELSE Ok([estimator |-> Deref(c.models, c.best_model),
             best_model_name |-> c.best_model_name,
             tfidf_vectorizer |-> c.preprocessor.tfidf_vectorizer,
             scaler |-> c.preprocessor.scaler,
             label_encoder |-> c.preprocessor.label_encoder,
             category_mapping |-> c.category_mapping])

\* get_category_suggestions builds a transaction of description, amount, date
SuggestionColumns == {"description", "amount", "date"}
get_category_suggestions(c) ==
    IF ~c.is_trained THEN Raise("ValueError: Model not trained")
    ELSE predict_category(c, SuggestionColumns)

\* ------------------------------------------------------------ artifact store
NoFile == [present |-> FALSE, v |-> 0]
File(x) == [present |-> TRUE, v |-> x]

CatModelFile == "categorizer_model.pkl"
CatMetaFile == "categorizer_metadata.pkl"
CatScalerFile == "categorizer_scaler.pkl"
CatTfidfFile == "categorizer_tfidf.pkl"
CatEncoderFile == "categorizer_label_encoder.pkl"
CatPreprocessorFiles == {CatScalerFile, CatTfidfFile, CatEncoderFile}
CatFiles == {CatModelFile, CatMetaFile} \cup CatPreprocessorFiles

Exists(dk, f) == dk[f].present

\* a save that leaves the label encoder out (sensitivity of the round trip)
save_preprocessors_NoEncoder(pp, dk) ==
    IF ~pp.is_fitted
      THEN [disk |-> dk, res |-> Raise("ValueError: Preprocessors not fitted")]
      ELSE [disk |-> [dk EXCEPT ![CatScalerFile] = File(pp.scaler),
                                ![CatTfidfFile] = File(pp.tfidf_vectorizer)],
            res |-> Ok(<<>>)]

\* save_preprocessors: raises before writing when the preprocessor is unfitted
save_preprocessors(pp, dk) ==
    IF ~pp.is_fitted
      THEN [disk |-> dk, res |-> Raise("ValueError: Preprocessors not fitted")]
      ELSE [disk |-> [dk EXCEPT ![CatScalerFile] = File(pp.scaler),
                                ![CatTfidfFile] = File(pp.tfidf_vectorizer),
                                ![CatEncoderFile] = File(pp.label_encoder)],
            res |-> Ok(<<>>)]

\* load_preprocessors: all three files or nothing (a warning, no exception)
load_preprocessors(pp, dk) ==
    IF \A f \in CatPreprocessorFiles : Exists(dk, f)
      THEN [scaler |-> dk[CatScalerFile].v,
            tfidf_vectorizer |-> dk[CatTfidfFile].v,
            label_encoder |-> dk[CatEncoderFile].v,
            is_fitted |-> TRUE]
      ELSE pp

CatMetadata(c) ==
    [best_model_name |-> c.best_model_name,
     model_performance |-> c.model_performance,
     category_mapping |-> c.category_mapping,
     is_trained |-> c.is_trained]

\* TransactionCategorizer.save_model: estimator, metadata, then preprocessors
cat_save_model(c, dk) ==
    IF ~c.is_trained
      THEN [disk |-> dk, res |-> Raise("ValueError: Model not trained. Cannot save.")]
      ELSE save_preprocessors(c.preprocessor,
               [dk EXCEPT ![CatModelFile] = File(Deref(c.models, c.best_model)),
                          ![CatMetaFile] = File(CatMetadata(c))])

\* TransactionCategorizer.load_model: guarded by the estimator and metadata
\* files only; the preprocessor files are looked at afterwards
cat_load_model(c, dk) ==
    IF Exists(dk, CatModelFile) /\ Exists(dk, CatMetaFile)
      THEN [c EXCEPT !.best_model = Copy(dk[CatModelFile].v),
                     !.best_model_name = dk[CatMetaFile].v.best_model_name,
                     !.model_performance = dk[CatMetaFile].v.model_performance,
                     !.category_mapping = dk[CatMetaFile].v.category_mapping,
                     !.is_trained = dk[CatMetaFile].v.is_trained,
                     !.preprocessor = load_preprocessors(c.preprocessor, dk)]
      ELSE c


\* ------------------------------------------------------------ SpendingPredictor
PredNames == <<"random_forest", "gradient_boosting", "linear_regression",
               "ridge_regression">>
PredNameSet == {PredNames[i] : i \in 1..Len(PredNames)}

\* feature_columns is an attribute only once a train or load has set it
PredictorInit ==
    [models |-> [n \in PredNameSet |-> Unfitted],
     best_model |-> NoModel,
     best_model_name |-> "none",
     model_performance |-> NoPerformance,
     feature_columns |-> FALSE,
     is_trained |-> FALSE]

\* first key in iteration order with the minimal value (Python min(keys, key))
RECURSIVE ArgMinFrom(_, _, _, _)
ArgMinFrom(names, score, i, best) ==
    IF i > Len(names) THEN best
    ELSE ArgMinFrom(names, score, i + 1,
                    IF score[names[i]] < score[best] THEN names[i] ELSE best)
ArgMinFirst(names, score) == ArgMinFrom(names, score, 2, names[1])

\* cv_mae of a candidate; float('inf') of a failed one is MaxScore + 1
Inf == MaxScore + 1
CandidateErrors(out) == [n \in DOMAIN out |-> IF out[n] = -1 THEN Inf ELSE out[n]]

\* SpendingPredictor.train_prediction_models.  inp:
\*   run     the user's transactions
\*   raiseAt "periods" (fewer than 10 periods), "refit" (final fit), "none"
\*   out     outcome of each candidate: -1 failed, else its cv_mae
pred_train(p, inp) ==
    LET p1 == [p EXCEPT !.models = FitCandidates(p.models, inp.run, inp.out)]
        best == ArgMinFirst(PredNames, CandidateErrors(inp.out))
        p2 == [p1 EXCEPT !.best_model_name = best,
                         !.best_model = Alias(best),
                         !.model_performance =
                             [run |-> inp.run, cv |-> CandidateErrors(inp.out)]]
        p3 == [p2 EXCEPT !.models[best] = Fitted(inp.run, "full"),
                         !.feature_columns = TRUE,
                         !.is_trained = TRUE]
    IN  IF inp.raiseAt = "periods"
          THEN [p |-> p, res |-> Raise("ValueError: need at least 10 periods")]
        ELSE IF inp.raiseAt = "refit"
          THEN [p |-> p2, res |-> Raise("ValueError: fit")]
        ELSE [p |-> p3, res |-> Ok(CandidateErrors(inp.out))]

\* _calculate_historical_errors: the backtest refits self.models[name] in
\* place, last on all but the five latest periods
calculate_historical_errors(p, run) ==
    [p EXCEPT !.models[p.best_model_name] = Fitted(run, "backtest")]

\* predict_future_spending on the transactions `run`; enough = the data set
\* has at least 10 periods.  The predictions are made by best_model before
\* the backtest runs.
predict_future_spending(p, run, enough) ==
    IF ~p.is_trained
      THEN [p |-> p, res |-> Raise("ValueError: Model not trained")]
    ELSE IF ~enough
      THEN [p |-> p, res |-> Raise("ValueError: need at least 10 periods")]
    ELSE IF Deref(p.models, p.best_model).fit = "none"
      THEN [p |-> p, res |-> Raise("NotFittedError")]
    ELSE [p |-> calculate_historical_errors(p, run),
          res |-> Ok([estimator |-> Deref(p.models, p.best_model),
                      model_used |-> p.best_model_name,
                      data |-> run])]

PredModelFile == "spending_predictor_model.pkl"
PredMetaFile == "spending_predictor_metadata.pkl"
PredFiles == {PredModelFile, PredMetaFile}

PredMetadata(p) ==
    [best_model_name |-> p.best_model_name,
     model_performance |-> p.model_performance,
     feature_columns |-> p.feature_columns,
     is_trained |-> p.is_trained]

pred_save_model(p, dk) ==
    IF ~p.is_trained
      THEN [disk |-> dk, res |-> Raise("ValueError: Model not trained. Cannot save.")]
      ELSE [disk |-> [dk EXCEPT ![PredModelFile] = File(Deref(p.models, p.best_model)),
                                ![PredMetaFile] = File(PredMetadata(p))],
            res |-> Ok(<<>>)]

pred_load_model(p, dk) ==
    IF Exists(dk, PredModelFile) /\ Exists(dk, PredMetaFile)
      THEN [p EXCEPT !.best_model = Copy(dk[PredModelFile].v),
                     !.best_model_name = dk[PredMetaFile].v.best_model_name,
                     !.model_performance = dk[PredMetaFile].v.model_performance,
                     !.feature_columns = dk[PredMetaFile].v.feature_columns,
                     !.is_trained = dk[PredMetaFile].v.is_trained]
      ELSE p

\* ----------------------------------------------------- BudgetRecommendationEngine
\* its own spending_predictor is never trained by any code path: the forecast
\* inside generate_budget_recommendations always raises and is swallowed
RecommenderInit ==
    [scaler |-> 0, clustering_model |-> 0, user_clusters |-> 0,
     cluster_profiles |-> 0, is_fitted |-> FALSE]

\* create_user_clusters.  inp: data, users ("few": fewer than 5 users or
\* valid profiles), raiseAt ("kmeans": clustering raises, "none")
create_user_clusters(r, inp) ==
    IF inp.users = "few"
      THEN [r |-> r, res |-> Ok([error |-> "Not enough users for clustering"])]
    ELSE IF inp.raiseAt = "kmeans"
      THEN [r |-> [r EXCEPT !.scaler = inp.data], res |-> Raise("ValueError: KMeans")]
    ELSE [r |-> [scaler |-> inp.data, clustering_model |-> inp.data,
                 user_clusters |-> inp.data, cluster_profiles |-> inp.data,
                 is_fitted |-> TRUE],
          res |-> Ok([error |-> "none"])]

\* generate_budget_recommendations: rules applied to the user's profile; it
\* reads neither is_fitted nor the clusters.  expenses = the user has expense
\* transactions
generate_budget_recommendations(r, expenses) ==
    IF ~expenses
      THEN Ok([error |-> "No expense transactions found for user"])
      ELSE Ok([error |-> "none"])

RecModelFile == "budget_recommender_model.pkl"
RecMetaFile == "budget_recommender_metadata.pkl"
RecScalerFile == "budget_recommender_scaler.pkl"
RecFiles == {RecModelFile, RecMetaFile, RecScalerFile}

RecMetadata(r) ==
    [user_clusters |-> r.user_clusters, cluster_profiles |-> r.cluster_profiles,
     is_fitted |-> r.is_fitted]

rec_save_model(r, dk) ==
    IF ~r.is_fitted
      THEN [disk |-> dk, res |-> Raise("ValueError: Model not fitted. Cannot save.")]
      ELSE [disk |-> [dk EXCEPT ![RecModelFile] = File(r.clustering_model),
                                ![RecMetaFile] = File(RecMetadata(r)),
                                ![RecScalerFile] = File(r.scaler)],
            res |-> Ok(<<>>)]

rec_load_model(r, dk) ==
    IF \A f \in RecFiles : Exists(dk, f)
      THEN [scaler |-> dk[RecScalerFile].v,
            clustering_model |-> dk[RecModelFile].v,
            user_clusters |-> dk[RecMetaFile].v.user_clusters,
            cluster_profiles |-> dk[RecMetaFile].v.cluster_profiles,
            is_fitted |-> dk[RecMetaFile].v.is_fitted]
      ELSE r

\* ------------------------------------------------------------- ModelEvaluator
\* evaluate_categorization_model: predict_batch over the test rows, which
\* come from the transaction store and carry every column
evaluate_categorization_model(c) ==
    IF ~c.is_trained THEN Ok([error |-> "Model not trained"])
    ELSE IF predict_category(c, AllColumns).status = "raised"
      THEN Raise(predict_category(c, AllColumns).error)
    ELSE Ok([error |-> "none"])

\* the fit of line 217 lands on the object best_model denotes
FitBestModel(p, e) ==
    IF p.best_model.kind = "alias"
      THEN [p EXCEPT !.models[p.best_model.name] = e]
      ELSE [p EXCEPT !.best_model = Copy(e)]

\* evaluate_prediction_model: refits predictor.best_model on the first 80%
\* of the test periods, then forecasts; every exception becomes {error}
evaluate_prediction_model(p, run, enough) ==
    IF ~p.is_trained THEN [p |-> p, res |-> Ok([error |-> "Model not trained"])]
    ELSE IF ~enough
      THEN [p |-> p, res |-> Ok([error |-> "ValueError: need at least 10 periods"])]
    ELSE LET p1 == FitBestModel(p, Fitted(run, "eval_split"))
             f == predict_future_spending(p1, run, enough)
         IN  [p |-> f.p,
              res |-> Ok([error |-> IF f.res.status = "raised"
                                      THEN f.res.error ELSE "none"])]

\* evaluate_recommendation_engine: recommendations for sample users
evaluate_recommendation_engine_Raising(r) ==
    IF ~r.is_fitted THEN Raise("ValueError: Model not fitted")
    ELSE Ok([error |-> "none"])
evaluate_recommendation_engine(r) ==
    IF ~r.is_fitted THEN Ok([error |-> "Recommendation engine not fitted"])
    ELSE Ok([error |-> "none"])

\* MLService.evaluate_models: each model is evaluated when it is ready and left
\* out of the results when it is not; an exception of an evaluation becomes
\* the single {error} answer of the batch
evaluate_models(c, p, r, run, enough) ==
    IF c.is_trained /\ evaluate_categorization_model(c).status = "raised"
      THEN [p |-> p,
            res |-> Ok([error |-> evaluate_categorization_model(c).error])]
    ELSE [p |-> IF p.is_trained
                  THEN evaluate_prediction_model(p, run, enough).p ELSE p,
          res |-> Ok([categorization |->
                          IF c.is_trained
                            THEN evaluate_categorization_model(c).value
                            ELSE [absent |-> TRUE],
                      prediction |->
                          IF p.is_trained
                            THEN evaluate_prediction_model(p, run, enough).res.value
                            ELSE [absent |-> TRUE],
                      recommendation |->
                          IF r.is_fitted
                            THEN evaluate_recommendation_engine(r).value
                            ELSE [absent |-> TRUE]])]

\* ------------------------------------------------------------------ MLService
\* auto_categorize_transaction: confidence is the largest class probability
\* of the estimator in tenths, commit_fails says whether the database commit
\* of the Prediction row raises (it is logged and swallowed). The transaction
\* handed to predict_category has no id. An exception of the try is logged
\* and the call returns None.
auto_categorize_transaction(c, confidence, commit_fails) ==
    IF ~c.is_trained
      THEN [ml_prediction_set |-> FALSE, stored |-> FALSE, returned |-> "None"]
    ELSE IF predict_category(c, {"description", "amount", "date", "merchant",
                                 "user_id"}).status = "raised"
      THEN [ml_prediction_set |-> FALSE, stored |-> FALSE, returned |-> "None"]
    ELSE IF confidence > 5
      THEN [ml_prediction_set |-> TRUE, stored |-> ~commit_fails,
            returned |-> "prediction_result"]
    ELSE [ml_prediction_set |-> FALSE, stored |-> FALSE, returned |-> "None"]

\* --------------------------------------------------------------- ModelTrainer
\* The trainer's objects as one value: categorizer c, predictor p,
\* recommender r, training_history h and the model directory dk.
LogFile == "logs/training_log.json"
AllFiles == CatFiles \cup PredFiles \cup RecFiles \cup {LogFile}

RequiredTransactionColumns == {"id", "user_id", "amount", "description", "date", "type"}
TrainingColumns == AllColumns \cup {"type", "category_id"}

\* validate_training_data: is_valid of the bundle.  tx.rows is "none", "few"
\* (fewer than 50 usable categorized rows) or "enough"
validate_training_data(inp) ==
    /\ inp.tx.rows # "none"
    /\ ~inp.categories_empty
    /\ RequiredTransactionColumns \subseteq inp.tx.columns

\* _save_training_log: read the month's log, append, write back
save_training_log(dk, rec) ==
    [dk EXCEPT ![LogFile] =
        File(Append(IF dk[LogFile].present THEN dk[LogFile].v ELSE <<>>, rec))]

\* the entry a pipeline returns: a dict with a status key
Entry(status) == [status |-> status]

\* train_categorization_model after train_models returned t: evaluation ev,
\* save sv, history and log record (the body of its try)
categorization_record(t) ==
    [model_type |-> "categorization", data |-> t.c.model_performance.run,
     best_model |-> t.c.best_model_name]
categorization_try(st, t, ev, sv) ==
    IF t.res.status = "raised" \/ ev.status = "raised"
      THEN [st |-> [st EXCEPT !.c = t.c], res |-> Ok(Entry("error"))]
    ELSE IF sv.res.status = "raised"
      THEN [st |-> [st EXCEPT !.c = t.c, !.dk = sv.disk], res |-> Ok(Entry("error"))]
    ELSE [st |-> [st EXCEPT !.c = t.c,
                            !.h = Append(st.h, categorization_record(t)),
                            !.dk = save_training_log(sv.disk, categorization_record(t))],
          res |-> Ok(Entry("success"))]
categorization_trained(st, t) ==
    categorization_try(st, t, evaluate_categorization_model(t.c),
                       cat_save_model(t.c, st.dk))

\* a trainer that never skips (sensitivity of the skip)
train_categorization_model_NoSkip(st, inp) ==
    IF inp.tx.rows = "few"
      THEN [st |-> st,
            res |-> Raise("ValueError: Not enough training data for categorization model")]
    ELSE categorization_trained(st, train_models(st.c, inp.cat))

\* train_categorization_model
train_categorization_model(st, inp) ==
    IF ~inp.force_retrain /\ Exists(st.dk, CatModelFile)
      THEN [st |-> st, res |-> Ok(Entry("skipped"))]
    ELSE IF inp.tx.rows = "few"
      THEN [st |-> st,
            res |-> Raise("ValueError: Not enough training data for categorization model")]
    ELSE categorization_trained(st, train_models(st.c, inp.cat))

\* one user of the loop of train_prediction_models.  u is what the user's
\* transactions lead to: "insufficient" periods; "error": every candidate
\* fails to fit and so does the final fit, which raises; or "success": every
\* candidate fits and gradient_boosting has the least cv_mae
PredOutcome(winner) == [n \in PredNameSet |-> IF n = winner THEN 0 ELSE MaxScore]
UserTrained(t, f) ==
    IF t.res.status = "raised" THEN [p |-> t.p, status |-> "error"]
    ELSE IF f.res.status = "raised" THEN [p |-> f.p, status |-> "error"]
    ELSE [p |-> f.p, status |-> "success"]
UserForecast(t, run) == UserTrained(t, predict_future_spending(t.p, run, TRUE))
TrainUser(p, run, u) ==
    IF u = "insufficient" THEN [p |-> p, status |-> "insufficient_data"]
    ELSE IF u = "error"
      THEN UserForecast(pred_train(p, [run |-> run, raiseAt |-> "refit",
                                       out |-> [n \in PredNameSet |-> -1]]),
                        run)
    ELSE UserForecast(pred_train(p, [run |-> run, raiseAt |-> "none",
                                     out |-> PredOutcome("gradient_boosting")]),
                      run)

\* the loop: the users in order, each trained into the one predictor
RECURSIVE TrainUsers(_, _, _, _, _)
TrainUsers(p, data, users, i, statuses) ==
    IF i > Len(users) THEN [p |-> p, statuses |-> statuses]
    ELSE TrainUsers(TrainUser(p, data, users[i]).p, data, users, i + 1,
                    Append(statuses, TrainUser(p, data, users[i]).status))

\* train_prediction_models: the save after the loop is outside every try
prediction_save(st, loop, sv) ==
    IF sv.res.status = "raised"
      THEN [st |-> [st EXCEPT !.p = loop.p], res |-> Raise(sv.res.error)]
      ELSE [st |-> [st EXCEPT !.p = loop.p, !.dk = sv.disk],
            res |-> Ok([users |-> loop.statuses])]
prediction_loop_done(st, loop) == prediction_save(st, loop, pred_save_model(loop.p, st.dk))
train_prediction_models(st, inp) ==
    prediction_loop_done(st, TrainUsers(st.p, inp.data, inp.users, 1, <<>>))

\* train_recommendation_engine
recommendation_record(data) ==
    [model_type |-> "recommendation", data |-> data, best_model |-> "none"]
recommendation_try(st, k, sv) ==
    IF k.res.status = "raised" \/ k.res.value.error # "none"
      THEN [st |-> [st EXCEPT !.r = k.r], res |-> Ok(Entry("error"))]
    ELSE IF sv.res.status = "raised"
      THEN [st |-> [st EXCEPT !.r = k.r], res |-> Ok(Entry("error"))]
    ELSE [st |-> [st EXCEPT !.r = k.r,
                            !.h = Append(st.h, recommendation_record(k.r.scaler)),
                            !.dk = save_training_log(sv.disk,
                                                     recommendation_record(k.r.scaler))],
          res |-> Ok(Entry("success"))]
recommendation_clustered(st, k) == recommendation_try(st, k, rec_save_model(k.r, st.dk))
train_recommendation_engine(st, inp) ==
    recommendation_clustered(st,
        create_user_clusters(st.r, [data |-> inp.data, users |-> inp.n_users,
                                    raiseAt |-> inp.rec_raise]))

\* the summary: an entry counts when its own status key is 'success'; the
\* prediction entry is keyed by user id and has no status key
TopLevelStatus(entry) ==
    IF "status" \in DOMAIN entry THEN entry.status ELSE "none"
successful_models(cat, pred, rec) ==
    Cardinality({e \in {<<"categorization", TopLevelStatus(cat)>>,
                        <<"prediction", TopLevelStatus(pred)>>,
                        <<"recommendation", TopLevelStatus(rec)>>} :
                    e[2] = "success"})
overall_status(n) == IF n >= 2 THEN "success" ELSE "partial_failure"

Absent == [absent |-> TRUE]
TrainAllValue(valid, cat, pred, rec, overall) ==
    [is_valid |-> valid, categorization |-> cat, prediction |-> pred,
     recommendation |-> rec, overall_status |-> overall]

\* train_all_models: validation, then the three pipelines in order, each
\* started on what the one before left; an exception of a pipeline ends the
\* call
all_results(a, b, c) ==
    [st |-> c.st,
     res |-> Ok(TrainAllValue(TRUE, a.res.value, b.res.value, c.res.value,
                overall_status(successful_models(a.res.value, b.res.value,
                                                 c.res.value))))]
after_prediction(a, b, inp) ==
    IF b.res.status = "raised"
      THEN [st |-> b.st,
            res |-> [status |-> "raised", error |-> b.res.error,
                     value |-> TrainAllValue(TRUE, a.res.value, Absent, Absent, "none")]]
      ELSE all_results(a, b, train_recommendation_engine(b.st, inp))
after_categorization(a, inp) ==
    IF a.res.status = "raised"
      THEN [st |-> a.st,
            res |-> [status |-> "raised", error |-> a.res.error,
                     value |-> TrainAllValue(TRUE, Absent, Absent, Absent, "none")]]
      ELSE after_prediction(a, train_prediction_models(a.st, inp), inp)
\* a run that validates only after the pipelines ran (sensitivity of the
\* validation gate)
train_all_models_LateValidation(st, inp) ==
    IF ~validate_training_data(inp)
      THEN [st |-> after_categorization(train_categorization_model(st, inp), inp).st,
            res |-> [status |-> "ok", error |-> "Data validation failed",
                     value |-> TrainAllValue(FALSE, Absent, Absent, Absent, "none")]]
      ELSE after_categorization(train_categorization_model(st, inp), inp)

train_all_models(st, inp) ==
    IF ~validate_training_data(inp)
      THEN [st |-> st,
            res |-> [status |-> "ok", error |-> "Data validation failed",
                     value |-> TrainAllValue(FALSE, Absent, Absent, Absent, "none")]]
      ELSE after_categorization(train_categorization_model(st, inp), inp)

\* load_all_models: each load in its own try
load_all_models(st) ==
    [st EXCEPT !.c = cat_load_model(st.c, st.dk),
               !.p = pred_load_model(st.p, st.dk),
               !.r = rec_load_model(st.r, st.dk)]

\* =========================================================================
\* State
\* =========================================================================
VARIABLES
    categorizer,       \* the TransactionCategorizer instance
    predictor,         \* the SpendingPredictor instance
    recommender,       \* the BudgetRecommendationEngine instance
    training_history,  \* ModelTrainer.training_history
    disk,              \* the artifact directory: file name -> content
    result,            \* the last call: operation, input, what it returned
    train,             \* a train_models call in flight (concurrent model)
    trains             \* number of training calls made so far

vars == <<result, trains, train, categorizer, predictor, recommender,
          training_history, disk>>

\* inputs
TxShapes == {AllColumns,
             RequiredColumns \cup {"user_id", "merchant"},
             {"id", "description", "amount"}}

NoOutcome == [n \in CatNameSet |-> 0]
Selected(out) == ArgMaxFirst(CatNames, CandidateScores(out))

\* inputs of train_models: an exception of the final fit is drawn only when
\* the selected candidate already failed on the split
\* the outcomes drawn when the categorizer is exercised as a component: one
\* candidate is the unique best, or every candidate fails
Wins(names, w) == [n \in names |-> IF n = w THEN MaxScore ELSE 0]
AllFail(names) == [n \in names |-> -1]
CatOutcomes == {Wins(CatNameSet, "random_forest"), Wins(CatNameSet, "naive_bayes"),
                AllFail(CatNameSet)}
CatTrainInputs ==
    {[data |-> d, raiseAt |-> "none", out |-> o] : d \in DataIds, o \in CatOutcomes}
    \cup {[data |-> d, raiseAt |-> "refit", out |-> o] :
        d \in DataIds, o \in {x \in CatOutcomes : x[Selected(x)] = -1}}
    \cup {[data |-> d, raiseAt |-> r, out |-> NoOutcome] :
        d \in DataIds, r \in {"rows", "split"}}

Call(op, input, res) ==
    [op |-> op, input |-> input, status |-> res.status, error |-> res.error,
     value |-> res.value]

NoTrain == [pc |-> "idle"]

Answers(c) == [cols \in TxShapes |-> predict_category(c, cols)]

\* ----------------------------------------------------------------- actions
\* TransactionCategorizer.train_models, called directly
TrainModels(inp) ==
    /\ train.pc = "idle"
    /\ trains < MaxTrains
    /\ trains' = trains + 1
    /\ categorizer' = train_models(categorizer, inp).c
    /\ result' = Call("train_models", inp, train_models(categorizer, inp).res)
    /\ UNCHANGED <<predictor, recommender, training_history, disk, train>>

\* TransactionCategorizer.save_model
SaveModel ==
    /\ train.pc = "idle"
    /\ disk' = cat_save_model(categorizer, disk).disk
    /\ result' = Call("save_model", <<>>, cat_save_model(categorizer, disk).res)
    /\ UNCHANGED <<categorizer, predictor, recommender, training_history, train, trains>>

\* TransactionCategorizer.load_model
LoadModel ==
    /\ train.pc = "idle"
    /\ categorizer' = cat_load_model(categorizer, disk)
    /\ result' = Call("load_model", <<>>, Ok(<<>>))
    /\ UNCHANGED <<predictor, recommender, training_history, disk, train, trains>>

\* TransactionCategorizer.predict_category
PredictCategory(cols) ==
    /\ result' = Call("predict_category", cols, predict_category(categorizer, cols))
    /\ UNCHANGED <<categorizer, predictor, recommender, training_history, disk,
                   train, trains>>

\* TransactionCategorizer.get_category_suggestions
GetCategorySuggestions ==
    /\ result' = Call("get_category_suggestions", SuggestionColumns,
                      get_category_suggestions(categorizer))
    /\ UNCHANGED <<categorizer, predictor, recommender, training_history, disk,
                   train, trains>>

\* one file of a complete artifact set disappears from the model directory
RemoveArtifact(f) ==
    /\ train.pc = "idle"
    /\ \A g \in CatFiles : Exists(disk, g)
    /\ disk' = [disk EXCEPT ![f] = NoFile]
    /\ result' = Call("remove_artifact", f, Ok(<<>>))
    /\ UNCHANGED <<categorizer, predictor, recommender, training_history,
                   train, trains>>

\* the process restarts: every object is constructed anew, the files stay
Restart ==
    /\ train.pc = "idle"
    /\ categorizer' = CategorizerInit
    /\ predictor' = PredictorInit
    /\ recommender' = RecommenderInit
    /\ training_history' = <<>>
    /\ result' = Call("restart", <<>>, Ok(<<>>))
    /\ UNCHANGED <<disk, train, trains>>

Init ==
    /\ categorizer = CategorizerInit
    /\ predictor = PredictorInit
    /\ recommender = RecommenderInit
    /\ training_history = <<>>
    /\ disk = [f \in AllFiles |-> NoFile]
    /\ result = Call("init", <<>>, Ok(<<>>))
    /\ train = NoTrain
    /\ trains = 0

\* the categorizer on its own
NextCat ==
    \/ \E inp \in CatTrainInputs : TrainModels(inp)
    \/ SaveModel
    \/ LoadModel
    \/ \E cols \in TxShapes : PredictCategory(cols)
    \/ GetCategorySuggestions
    \/ \E f \in CatFiles : RemoveArtifact(f)
    \/ Restart

SpecCat == Init /\ [][NextCat]_vars

\* ------------------------------------------------- the trainer and its clients
MaxUsers == 2

\* the trainer's objects
Trainer == [c |-> categorizer, p |-> predictor, r |-> recommender,
            h |-> training_history, dk |-> disk]

\* data handed to train_all_models.  The users listed are those of the
\* prediction loop in order; n_users says whether the data has the five
\* users clustering needs
UserOutcomes == {"insufficient", "success"}
TrainAllShape(tx, ce, force, d, craise, users, n, rraise) ==
    [tx |-> tx, categories_empty |-> ce, force_retrain |-> force, data |-> d,
     cat |-> [data |-> d, raiseAt |-> craise,
              out |-> Wins(CatNameSet, "random_forest")],
     users |-> users, n_users |-> n, rec_raise |-> rraise]
ValidTrainAllInputs ==
    {TrainAllShape([rows |-> rows, columns |-> TrainingColumns], FALSE, force, d,
                   craise, users, n, "none") :
        rows \in {"few", "enough"}, force \in BOOLEAN, d \in DataIds,
        craise \in {"none", "rows"}, users \in [1..MaxUsers -> UserOutcomes],
        n \in {"few", "enough"}}
InvalidTrainAllInputs ==
    {TrainAllShape(tx, ce, TRUE, d, "none", [i \in 1..MaxUsers |-> "success"],
                   "enough", "none") :
        tx \in {[rows |-> "none", columns |-> TrainingColumns],
                [rows |-> "enough", columns |-> TrainingColumns \ {"type"}],
                [rows |-> "enough", columns |-> TrainingColumns]},
        ce \in BOOLEAN, d \in DataIds}
TrainAllInputs ==
    {i \in ValidTrainAllInputs : i.tx.rows = "enough" \/ i.cat.raiseAt = "none"}
    \cup {i \in InvalidTrainAllInputs : ~validate_training_data(i)}

\* ModelTrainer.train_all_models
TrainAllApplied(t, valid) ==
    /\ categorizer' = t.st.c
    /\ predictor' = t.st.p
    /\ recommender' = t.st.r
    /\ training_history' = t.st.h
    /\ disk' = t.st.dk
    /\ result' = Call("train_all_models", [valid |-> valid], t.res)
TrainAllModels(inp) ==
    /\ train.pc = "idle"
    /\ trains < MaxTrains
    /\ trains' = trains + 1
    /\ \E t \in {train_all_models(Trainer, inp)} :
           TrainAllApplied(t, validate_training_data(inp))
    /\ UNCHANGED train

\* ModelTrainer.load_all_models
LoadAllModels ==
    /\ train.pc = "idle"
    /\ categorizer' = load_all_models(Trainer).c
    /\ predictor' = load_all_models(Trainer).p
    /\ recommender' = load_all_models(Trainer).r
    /\ result' = Call("load_all_models", <<>>, Ok(<<>>))
    /\ UNCHANGED <<training_history, disk, train, trains>>

\* SpendingPredictor.predict_future_spending
PredictFutureSpending(run, enough) ==
    /\ train.pc = "idle"
    /\ predictor' = predict_future_spending(predictor, run, enough).p
    /\ result' = Call("predict_future_spending", <<run, enough>>,
                      predict_future_spending(predictor, run, enough).res)
    /\ UNCHANGED <<categorizer, recommender, training_history, disk, train, trains>>

\* BudgetRecommendationEngine.generate_budget_recommendations
GenerateBudgetRecommendations(expenses) ==
    /\ result' = Call("generate_budget_recommendations", expenses,
                      generate_budget_recommendations(recommender, expenses))
    /\ UNCHANGED <<categorizer, predictor, recommender, training_history, disk,
                   train, trains>>

\* ModelEvaluator.evaluate_categorization_model
EvaluateCategorization ==
    /\ result' = Call("evaluate_categorization_model", <<>>,
                      evaluate_categorization_model(categorizer))
    /\ UNCHANGED <<categorizer, predictor, recommender, training_history, disk,
                   train, trains>>

\* ModelEvaluator.evaluate_prediction_model
EvaluatePrediction(run, enough) ==
    /\ train.pc = "idle"
    /\ predictor' = evaluate_prediction_model(predictor, run, enough).p
    /\ result' = Call("evaluate_prediction_model", <<run, enough>>,
                      evaluate_prediction_model(predictor, run, enough).res)
    /\ UNCHANGED <<categorizer, recommender, training_history, disk, train, trains>>

\* ModelEvaluator.evaluate_recommendation_engine
EvaluateRecommendation ==
    /\ result' = Call("evaluate_recommendation_engine", <<>>,
                      evaluate_recommendation_engine(recommender))
    /\ UNCHANGED <<categorizer, predictor, recommender, training_history, disk,
                   train, trains>>

\* BudgetRecommendationEngine.create_user_clusters
CreateUserClusters(inp) ==
    /\ recommender' = create_user_clusters(recommender, inp).r
    /\ result' = Call("create_user_clusters", inp,
                      create_user_clusters(recommender, inp).res)
    /\ UNCHANGED <<categorizer, predictor, training_history, disk, train, trains>>

\* MLService.auto_categorize_transaction
AutoCategorizeTransaction(confidence, commit_fails) ==
    /\ result' = Call("auto_categorize_transaction",
                      [confidence |-> confidence, commit_fails |-> commit_fails],
                      Ok(auto_categorize_transaction(categorizer, confidence,
                                                     commit_fails)))
    /\ UNCHANGED <<categorizer, predictor, recommender, training_history, disk,
                   train, trains>>

\* MLService.evaluate_models
EvaluateModels(run, enough) ==
    /\ train.pc = "idle"
    /\ predictor' = evaluate_models(categorizer, predictor, recommender,
                                    run, enough).p
    /\ result' = Call("evaluate_models", [run |-> run, enough |-> enough],
                      evaluate_models(categorizer, predictor, recommender,
                                      run, enough).res)
    /\ UNCHANGED <<categorizer, recommender, training_history, disk, train, trains>>

\* the trainer with the inference and evaluation calls of its clients
Next ==
    \/ \E inp \in TrainAllInputs : TrainAllModels(inp)
    \/ LoadAllModels
    \/ PredictCategory(RequiredColumns \cup {"id"})
    \/ GetCategorySuggestions
    \/ \E run \in DataIds, enough \in BOOLEAN : PredictFutureSpending(run, enough)
    \/ \E expenses \in BOOLEAN : GenerateBudgetRecommendations(expenses)
    \/ EvaluateCategorization
    \/ \E run \in DataIds, enough \in BOOLEAN : EvaluatePrediction(run, enough)
    \/ EvaluateRecommendation
    \/ Restart

Spec == Init /\ [][Next]_vars

\* MLService.__init__: the process starts; the service constructs a trainer
\* (with instances of its own) and a categorizer, a predictor and a
\* recommender of its own, then _load_models loads the artifacts into the
\* trainer's instances.  The state variables hold the trainer's instances;
\* the value of the call holds the instances the service serves from.
MLServiceInit ==
    /\ train.pc = "idle"
    /\ LET loaded == load_all_models([c |-> CategorizerInit, p |-> PredictorInit,
                                      r |-> RecommenderInit, h |-> <<>>,
                                      dk |-> disk])
       IN  /\ categorizer' = loaded.c
           /\ predictor' = loaded.p
           /\ recommender' = loaded.r
    /\ training_history' = <<>>
    /\ result' = Call("ml_service_init", <<>>,
                      Ok([categorizer |-> CategorizerInit,
                          predictor |-> PredictorInit,
                          recommender |-> RecommenderInit]))
    /\ UNCHANGED <<disk, train, trains>>

\* the trainer on its own: forced retrains (no pipeline is skipped), loads
\* and restarts
ForcedTrainAllInputs == {i \in TrainAllInputs : i.force_retrain}
NextTrain ==
    \/ \E inp \in ForcedTrainAllInputs : TrainAllModels(inp)
    \/ LoadAllModels
    \/ Restart
    \/ MLServiceInit

SpecTrain == Init /\ [][NextTrain]_vars

\* ModelTrainer.train_categorization_model, called on its own
TrainCategorizationModel(inp) ==
    /\ train.pc = "idle"
    /\ trains < MaxTrains
    /\ trains' = trains + 1
    /\ LET t == train_categorization_model(Trainer, inp)
       IN  /\ categorizer' = t.st.c
           /\ training_history' = t.st.h
           /\ disk' = t.st.dk
           /\ result' = Call("train_categorization_model", inp, t.res)
    /\ UNCHANGED <<predictor, recommender, train>>

\* the categorization pipeline of the trainer on its own, with and without
\* force_retrain, between restarts of the process, loads and predictions
SkipInputs ==
    {i \in TrainAllInputs :
        /\ validate_training_data(i)
        /\ i.users = [k \in 1..MaxUsers |-> "success"]
        /\ i.n_users = "enough"}
NextSkip ==
    \/ \E inp \in SkipInputs : TrainCategorizationModel(inp)
    \/ MLServiceInit
    \/ Restart
    \/ LoadAllModels
    \/ \E cols \in {AllColumns} : PredictCategory(cols)

SpecSkip == Init /\ [][NextSkip]_vars

\* the service with the evaluation calls, one model at a time and in a batch,
\* and the clustering call, after forced trainings of one data set in which the users of the
\* prediction loop fare alike
EvalTrainInputs ==
    {i \in ForcedTrainAllInputs :
        /\ validate_training_data(i)
        /\ i.data = 1
        /\ i.cat.raiseAt = "none"
        /\ \A u \in DOMAIN i.users : i.users[u] = i.users[1]}
NextEval ==
    \/ \E inp \in EvalTrainInputs : TrainAllModels(inp)
    \/ EvaluateCategorization
    \/ \E run \in DataIds, enough \in BOOLEAN : EvaluatePrediction(run, enough)
    \/ EvaluateRecommendation
    \/ \E run \in DataIds, enough \in BOOLEAN : EvaluateModels(run, enough)
    \/ \E d \in DataIds, n \in {"few", "enough"} :
          CreateUserClusters([data |-> d, users |-> n, raiseAt |-> "none"])
    \/ \E confidence \in {5, 6}, commit_fails \in BOOLEAN :
          AutoCategorizeTransaction(confidence, commit_fails)

SpecEval == Init /\ [][NextEval]_vars


\* ------------------------------------- a train in flight next to predictions
\* The web application serves every request from the one ml_service object,
\* so a predict request can run between any two statements of a train
\* request.  train_models is taken apart into its assignments.
TrainSteps == <<"prepare", "features", "candidates", "select_name", "select_model",
                "performance", "refit", "trained">>
StepOp(k, c, inp) ==
    CASE k = 1 -> train_step_prepare(c, inp)
      [] k = 2 -> train_step_features(c, inp)
      [] k = 3 -> train_step_candidates(c, inp)
      [] k = 4 -> train_step_select_name(c, inp)
      [] k = 5 -> train_step_select_model(c, inp)
      [] k = 6 -> train_step_performance(c, inp)
      [] k = 7 -> train_step_refit(c, inp)
      [] OTHER -> train_step_trained(c, inp)

\* trains that succeed: every candidate fits, one is the best
ConcTrainInputs ==
    {[data |-> d, raiseAt |-> "none", out |-> Wins(CatNameSet, w)] :
        d \in DataIds, w \in {"random_forest", "naive_bayes"}}

BeginTrain(inp) ==
    /\ train.pc = "idle"
    /\ trains < MaxTrains
    /\ trains' = trains + 1
    /\ train' = [pc |-> "running", at |-> 1, inp |-> inp]
    /\ UNCHANGED <<categorizer, predictor, recommender, training_history, disk, result>>

TrainStep ==
    /\ train.pc = "running"
    /\ categorizer' = StepOp(train.at, categorizer, train.inp)
    /\ train' = IF train.at = Len(TrainSteps) THEN NoTrain
                ELSE [train EXCEPT !.at = train.at + 1]
    /\ result' = IF train.at = Len(TrainSteps)
                   THEN Call("train_models", train.inp,
                             Ok(CandidateScores(train.inp.out)))
                   ELSE result
    /\ UNCHANGED <<predictor, recommender, training_history, disk, trains>>

NextConc ==
    \/ \E inp \in ConcTrainInputs : BeginTrain(inp)
    \/ TrainStep
    \/ \E cols \in TxShapes : PredictCategory(cols)

SpecConc == Init /\ [][NextConc]_vars


\* =========================================================================
\* Functions of one call: text cleaning, feature extraction, forecasting
\* arithmetic, budget arithmetic
\* =========================================================================

\* ------------------------------------------- DataPreprocessor (text, rows)
\* A description is a sequence of pieces of text. "POS" is the upper-case
\* spelling of the prefix "pos", "shop" a word that is no prefix, "12345" a
\* run of more than three digits, " " one blank, "#" a character outside
\* [\w\s\-\.]. Pieces written without a blank between them form one word. No
\* piece is a date, so the two date patterns of lines 66-67 match nothing.
MaxLen == 4
Descriptions ==
    UNION {[1..n -> {"POS", "pos", "debit", "shop", "12345", " ", "#"}] :
              n \in 0..MaxLen}

\* the pieces of s at the positions I, in their order
KeepAt(s, I) ==
    [k \in 1..Cardinality(I) |->
        s[CHOOSE i \in I : Cardinality({j \in I : j <= i}) = k]]

\* str.strip()
strip(s) ==
    LET I == {i \in 1..Len(s) : s[i] # " "}
    IN IF I = {} THEN <<>>
       ELSE SubSeq(s, CHOOSE i \in I : \A j \in I : i <= j,
                      CHOOSE i \in I : \A j \in I : j <= i)

\* lines 57-60, the loop over the prefixes: one pass, in the order of the list
RECURSIVE strip_prefixes(_, _, _)
strip_prefixes(text, prefixes, k) ==
    IF k > Len(prefixes) THEN text
    ELSE strip_prefixes(IF /\ Len(text) >= 2
                           /\ text[1] = prefixes[k]
                           /\ text[2] = " "
                          THEN strip(Tail(text)) ELSE text,
                        prefixes, k + 1)

clean_description(description) ==
    IF description = <<>> THEN <<>>
    ELSE LET \* line 48: lower().strip()
             lowered == strip([i \in DOMAIN description |->
                 IF description[i] = "POS" THEN "pos" ELSE description[i]])
             \* line 51: a character outside [\w\s\-\.] becomes a blank
             replaced == [i \in DOMAIN lowered |->
                 IF lowered[i] = "#" THEN " " ELSE lowered[i]]
             \* line 54: a run of blanks becomes one blank
             collapsed == KeepAt(replaced, {i \in DOMAIN replaced :
                 ~(replaced[i] = " " /\ i > 1 /\ replaced[i - 1] = " ")})
             text == strip_prefixes(collapsed,
                 <<"pos", "debit", "credit", "purchase", "payment", "transfer">>, 1)
             \* line 63, \b\d{4,}\b: the digit pieces of the words made of
             \* digit pieces only
             numbers == {i \in DOMAIN text :
                 /\ text[i] = "12345"
                 /\ \A j \in DOMAIN text :
                       (\A k \in DOMAIN text :
                           ((i <= k /\ k <= j) \/ (j <= k /\ k <= i))
                               => text[k] # " ")
                       => text[j] = "12345"}
         IN strip(KeepAt(text, DOMAIN text \ numbers))

\* the feature keys extracted from one row (preprocess_transactions on a
\* frame of one row, as predict_category builds it): description, date and
\* amount are "present" or "null" (None)
extract_features(row) ==
    LET extract_features_from_description ==
            \* the same keys from _empty_description_features for a null
            {"description_length", "word_count", "avg_word_length",
             "has_numbers", "has_special_chars", "is_uppercase",
             "merchant_name", "food_keywords", "transport_keywords",
             "shopping_keywords", "entertainment_keywords"}
        extract_temporal_features ==
            IF row.date = "null" THEN {}
            ELSE {"day_of_week", "day_of_month", "month", "quarter",
                  "is_weekend", "is_month_start", "is_month_end",
                  "is_holiday_season"}
        extract_amount_features ==
            \* a null amount is replaced by 0.0
            {"amount", "amount_log", "amount_rounded", "is_round_number",
             "amount_category"}
    IN extract_features_from_description \cup extract_temporal_features
           \cup extract_amount_features

\* ------------------------ BudgetRecommendationEngine (category arithmetic)
\* A category breakdown gives each category its share of the historical
\* spending in PctParts-ths; the shares of a profile sum to the whole
\* (recommendation.py:109-110). Percentages are counted in units of
\* 1/PctParts percent and amounts in the same units of the target budget.
PctParts == 10
MaxBudget == 3
Breakdowns ==
    {b \in [{"Food & Dining", "Transportation", "Entertainment", "Rent"}
               -> 0..PctParts] :
        b["Food & Dining"] + b["Transportation"] + b["Entertainment"] + b["Rent"]
            = PctParts}

Min(a, b) == IF a <= b THEN a ELSE b

\* the list is returned sorted by recommended_amount; it is kept here as a
\* function of the category name
generate_category_recommendations(category_breakdown, target_budget) ==
    [name \in DOMAIN category_breakdown |->
        LET historical_percentage == 100 * category_breakdown[name]
            recommended_percentage ==
                CASE name = "Food & Dining" ->
                        Min(30 * PctParts, (historical_percentage * 11) \div 10)
                  [] name = "Transportation" ->
                        Min(15 * PctParts, (historical_percentage * 11) \div 10)
                  [] name = "Entertainment" ->
                        Min(10 * PctParts, (historical_percentage * 9) \div 10)
                  [] OTHER -> historical_percentage
        IN [historical_percentage |-> historical_percentage,
            recommended_percentage |-> recommended_percentage,
            recommended_amount |-> recommended_percentage * target_budget]]

\* --------------------------------------- SpendingPredictor (series arithmetic)
\* total_spending of the periods of a data set, in whole currency units. The
\* data set has at least MinPeriods periods (prediction.py:164-165) and, lags
\* and rolling statistics being filled with 0, as many rows as periods.
MinPeriods == 10
MaxPeriods == 11
MaxSpending == 20

RECURSIVE Sum(_)
Sum(s) == IF s = <<>> THEN 0 ELSE Head(s) + Sum(Tail(s))

\* series of regular spending (9, 11, 9, ...) with one period, spike, that
\* lies at least five standard deviations of the other periods above their
\* mean
SpikeSeries ==
    LET Series(n, pos, sp) ==
            [k \in 1..n |-> IF k = pos THEN sp ELSE IF k % 2 = 0 THEN 11 ELSE 9]
        FiveSigma(x, r) ==
            25 * Sum([j \in DOMAIN r |-> (Len(r) * r[j] - Sum(r))
                                           * (Len(r) * r[j] - Sum(r))])
              <= (Len(r) * x - Sum(r)) * (Len(r) * x - Sum(r)) * (Len(r) - 1)
    IN {s \in {[total_spending |-> Series(n, pos, sp), spike |-> pos] :
                  n \in MinPeriods..MaxPeriods, pos \in 1..MaxPeriods,
                  sp \in 12..MaxSpending} :
           /\ s.spike <= Len(s.total_spending)
           /\ FiveSigma(s.total_spending[s.spike],
                        KeepAt(s.total_spending,
                               DOMAIN s.total_spending \ {s.spike}))}

\* detect_spending_anomalies: z = |x - mean| / std with the sample standard
\* deviation (pandas std, n - 1 in the denominator) of all periods. With
\* d[i] = n * x[i] - sum(x), z[i] > t is d[i]^2 * (n - 1) > t^2 * sum(d^2).
detect_spending_anomalies(total_spending, threshold) ==
    LET n == Len(total_spending)
        d == [i \in 1..n |-> n * total_spending[i] - Sum(total_spending)]
        q == Sum([i \in 1..n |-> d[i] * d[i]])
        Above(i, t) == d[i] * d[i] * (n - 1) > t * t * q
    IN {[period |-> i,
         anomaly_type |-> IF d[i] > 0 THEN "high" ELSE "low",
         severity |-> IF Above(i, 3) THEN "high" ELSE "medium"] :
           i \in {j \in 1..n : Above(j, threshold)}}

\* _calculate_confidence_intervals: predictions and error estimate in whole
\* currency units, the bounds in hundredths (1.96 = 196 / 100)
MaxOutput == 3
Max(a, b) == IF a >= b THEN a ELSE b
calculate_confidence_intervals_Unclamped(predictions, error_estimate) ==
    [i \in DOMAIN predictions |->
        <<100 * predictions[i] - 196 * error_estimate,
          100 * predictions[i] + 196 * error_estimate>>]
calculate_confidence_intervals(predictions, error_estimate) ==
    [i \in DOMAIN predictions |->
        <<Max(0, 100 * predictions[i] - 196 * error_estimate),
          100 * predictions[i] + 196 * error_estimate>>]

\* _categorize_amount, the amount in cents (10 is 1000 cents)
MaxCents == 20001
categorize_amount_Inclusive(amount) ==
    IF amount <= 1000 THEN "small"
    ELSE IF amount <= 5000 THEN "medium"
    ELSE IF amount <= 20000 THEN "large"
    ELSE "very_large"
categorize_amount(amount) ==
    IF amount < 1000 THEN "small"
    ELSE IF amount < 5000 THEN "medium"
    ELSE IF amount < 20000 THEN "large"
    ELSE "very_large"

\* --------------------------------------------- forecasting rows and dates
\* SpendingPredictor.predict_future_spending builds one synthetic row per
\* future period.  A dataset is the sequence of total_spending per period in
\* period order (at least MinPeriods of them); a date is a day number in a
\* non-leap year whose day 1 is a Monday and the first of January.
MaxAhead == 3

\* datetime.month
month(date) ==
    LET days == <<31, 28, 31, 30, 31, 30, 31, 31, 30, 31, 30, 31>>
    IN  CHOOSE m \in 1..12 :
            /\ date <= Sum(SubSeq(days, 1, m))
            /\ date > Sum(SubSeq(days, 1, m - 1))

\* A variant (sensitivity of the window): it moves forward with the step, as it would
\* if earlier steps were part of the data of later ones.
create_future_features_Shifted(dataset, periods_ahead, future_date) ==
    LET n == Len(dataset) - (periods_ahead - 1)
        last_rows == SubSeq(dataset, n - 3, n)
    IN  [total_spending_lag |-> [lag \in 1..4 |-> last_rows[4 - lag + 1]],
         roll_sum |-> [window \in 2..4 |->
                          Sum(SubSeq(last_rows, 4 - window + 1, 4))],
         spending_trend |-> <<last_rows[4] - last_rows[3], last_rows[3]>>,
         spending_trend_3period |-> <<last_rows[4] - last_rows[1], last_rows[1]>>,
         day_of_week |-> (future_date - 1) % 7,
         month |-> month(future_date)]

\* _create_future_features: lags, rolling sums (the numerators of the rolling
\* means) and trends (numerator and denominator) come from dataset.tail(4);
\* the calendar features from future_date.  periods_ahead is never read.
create_future_features(dataset, periods_ahead, future_date) ==
    LET n == Len(dataset)
        last_rows == SubSeq(dataset, Max(1, n - 3), n)
        len == Len(last_rows)
    IN  [total_spending_lag |-> [lag \in 1..4 |->
                                    IF len >= lag THEN last_rows[len - lag + 1]
                                    ELSE 0],
         roll_sum |-> [window \in 2..4 |->
                          IF len >= window
                          THEN Sum(SubSeq(last_rows, len - window + 1, len))
                          ELSE 0],
         spending_trend |-> IF len >= 2
                            THEN <<last_rows[len] - last_rows[len - 1],
                                   last_rows[len - 1]>>
                            ELSE <<0, 1>>,
         spending_trend_3period |-> IF len >= 4
                                    THEN <<last_rows[len] - last_rows[len - 3],
                                           last_rows[len - 3]>>
                                    ELSE <<0, 1>>,
         day_of_week |-> (future_date - 1) % 7,
         month |-> month(future_date)]

\* ------------------------------------------------- the number of clusters
\* BudgetRecommendationEngine._find_optimal_clusters.  len_X is the number of
\* rows clustered (one per valid profile), score[k] the silhouette score of
\* the clustering into k clusters.
MaxClusterUsers == 17

\* A variant (sensitivity of the range): every k up to max_clusters is a candidate, whatever len(X).
find_optimal_clusters_AllCandidates(len_X, max_clusters, score) ==
    LET RECURSIVE loop(_, _, _)
        loop(k, best_score, best_k) ==
            IF k >= max_clusters + 1 THEN best_k
            ELSE IF score[k] > best_score THEN loop(k + 1, score[k], k)
            ELSE loop(k + 1, best_score, best_k)
    IN  loop(2, -1, 2)

\* for k in range(2, min(max_clusters + 1, len(X))), keeping the first k
\* whose score is above the best so far (initially -1, with best_k = 2)
find_optimal_clusters(len_X, max_clusters, score) ==
    LET RECURSIVE loop(_, _, _)
        loop(k, best_score, best_k) ==
            IF k >= Min(max_clusters + 1, len_X) THEN best_k
            ELSE IF score[k] > best_score THEN loop(k + 1, score[k], k)
            ELSE loop(k + 1, best_score, best_k)
    IN  loop(2, -1, 2)

\* -------------------------------------------- DataPreprocessor (columns)
\* The numeric feature columns, in order, that prepare_features_for_training
\* and transform_features select from the frame preprocess_transactions
\* builds (id and user_id are excluded, booleans and strings are not
\* numeric).  user_id: the frame handed in has a user_id column, which adds
\* the user-relative columns; date: "present", or "null" in every row, which
\* leaves the temporal columns out.
numeric_features(user_id, date) ==
    <<"amount", "description_length", "word_count", "avg_word_length",
      "food_keywords", "transport_keywords", "shopping_keywords",
      "entertainment_keywords">>
    \o (IF date = "null" THEN <<>>
        ELSE <<"day_of_week", "day_of_month", "month", "quarter">>)
    \o <<"amount", "amount_log", "amount_rounded">>
    \o (IF user_id
          THEN <<"user_avg_amount", "user_std_amount", "user_transaction_count",
                 "amount_vs_user_avg", "amount_zscore">>
          ELSE <<>>)

\* users of one train_prediction_models loop
MaxLoopUsers == 3

\* ----------------------------------------------------------------- actions
\* A function of one call is applied once to arguments drawn at the start.
Given(op, input) ==
    Call(op, input, [status |-> "given", error |-> "none", value |-> <<>>])

FnInputs ==
    {Given("clean_description", d) : d \in Descriptions}
    \cup {Given("generate_category_recommendations",
                [category_breakdown |-> b, target_budget |-> t]) :
             b \in Breakdowns, t \in 1..MaxBudget}
    \cup {Given("extract_features", row) :
             row \in [description : {"present", "null"},
                      amount : {"present", "null"},
                      date : {"present", "null"}]}
    \cup {Given("detect_spending_anomalies", s) : s \in SpikeSeries}
    \cup {Given("predict_future_spending",
                [outputs |-> o, error_estimate |-> e]) :
             o \in UNION {[1..n -> -MaxOutput..MaxOutput] : n \in 1..2},
             e \in 0..MaxOutput}
    \cup {Given("categorize_amount", a) :
             a \in {c \in 0..MaxCents : c % 500 \in {0, 1, 2, 499}}}
    \cup {Given("select_best_model", [component |-> "categorizer", out |-> o]) :
             o \in [CatNameSet -> -1..MaxScore]}
    \cup {Given("select_best_model", [component |-> "predictor", out |-> o]) :
             o \in [PredNameSet -> -1..MaxScore]}
    \cup {Given("future_periods",
                [dataset |-> [k \in 1..MinPeriods |->
                                 IF k <= MinPeriods - 4 THEN 1
                                 ELSE tail[k - (MinPeriods - 4)]],
                 periods_ahead |-> n, period |-> p.period,
                 last_period |-> p.last_period]) :
             tail \in [1..4 -> 1..2], n \in 0..MaxAhead,
             p \in ([period : {"day"}, last_period : {1, 32}]
                    \cup [period : {"week"}, last_period : {1, 8}]
                    \cup [period : {"month"}, last_period : {1, 32, 60}])}
    \cup {Given("find_optimal_clusters",
                [users |-> up[1], profiles |-> up[2], score |-> s]) :
             up \in {q \in {4, 5, 10, MaxClusterUsers}
                              \X {4, 5, 6, 9, MaxClusterUsers} : q[2] <= q[1]},
             s \in [2..8 -> {-1, 1}]}
    \cup {Given("transform_features", i) :
             i \in [train_user_id : BOOLEAN, user_id : BOOLEAN,
                    date : {"present", "null"}]}
    \cup {Given("train_prediction_models", users) :
             users \in UNION {[1..n -> {"insufficient", "success", "error"}] :
                                 n \in 1..MaxLoopUsers}}

Returns(op, res) ==
    /\ result.op = op
    /\ result.status = "given"
    /\ result' = Call(op, result.input, res)
    /\ UNCHANGED <<trains, train, categorizer, predictor, recommender,
                   training_history, disk>>

CleanDescription ==
    Returns("clean_description", Ok(clean_description(result.input)))

GenerateCategoryRecommendations ==
    Returns("generate_category_recommendations",
            Ok(generate_category_recommendations(result.input.category_breakdown,
                                                 result.input.target_budget)))

InitFn ==
    /\ result \in FnInputs
    /\ categorizer = CategorizerInit
    /\ predictor = PredictorInit
    /\ recommender = RecommenderInit
    /\ training_history = <<>>
    /\ disk = [f \in AllFiles |-> NoFile]
    /\ train = NoTrain
    /\ trains = 0

\* detect_spending_anomalies with its default threshold, 2.0
DetectSpendingAnomalies ==
    Returns("detect_spending_anomalies",
            Ok(detect_spending_anomalies(result.input.total_spending, 2)))

\* predict_future_spending, lines 282-290: the outputs of best_model.predict
\* for the periods ahead are clamped at 0 and get their intervals from the
\* mean absolute error of the backtest
PredictedSpending ==
    /\ result.op = "predict_future_spending"
    /\ \E predictions \in {[i \in DOMAIN result.input.outputs |->
                               Max(0, result.input.outputs[i])]} :
          Returns("predict_future_spending",
                  Ok([predictions |-> predictions,
                      confidence_intervals |->
                          calculate_confidence_intervals(
                              predictions, result.input.error_estimate)]))

ExtractFeatures ==
    Returns("extract_features", Ok(extract_features(result.input)))

CategorizeAmount ==
    Returns("categorize_amount", Ok(categorize_amount(result.input)))

\* the selection of train_models (categorization.py:145-148) and of
\* train_prediction_models (prediction.py:237-240) on fresh components: the
\* name of the best model after a training with the candidates' outcomes out
SelectBestModel ==
    /\ result.op = "select_best_model"
    /\ Returns("select_best_model",
               Ok(IF result.input.component = "categorizer"
                    THEN train_models(CategorizerInit,
                             [data |-> 1, raiseAt |-> "none",
                              out |-> result.input.out]).c.best_model_name
                    ELSE pred_train(PredictorInit,
                             [run |-> 1, raiseAt |-> "none",
                              out |-> result.input.out]).p.best_model_name))

\* The loop of predict_future_spending: the future date and the feature row
\* of every step i in 1..periods_ahead, and the dates returned.
FuturePeriods ==
    /\ result.op = "future_periods"
    /\ LET inp == result.input
           future_date(i) ==
               CASE inp.period = "day" -> inp.last_period + i
                 [] inp.period = "week" -> inp.last_period + 7 * i
                 [] inp.period = "month" -> inp.last_period + 30 * i
       IN  Returns("future_periods",
                   Ok([features |-> [i \in 1..inp.periods_ahead |->
                                        create_future_features(inp.dataset, i,
                                                               future_date(i))],
                       dates |-> [i \in 1..inp.periods_ahead |->
                                     future_date(i)]]))

\* create_user_clusters with n_clusters not given, up to the choice of the
\* number of clusters: users is the number of distinct user ids, profiles the
\* number of them whose profile has no error.
FindOptimalClusters ==
    /\ result.op = "find_optimal_clusters"
    /\ LET inp == result.input
       IN  Returns("find_optimal_clusters",
                   IF inp.users < 5
                     THEN Ok([error |-> "Not enough users for clustering"])
                   ELSE IF inp.profiles < 5
                     THEN Ok([error |-> "Not enough valid user profiles"])
                   ELSE Ok([error |-> "none",
                            n_clusters |->
                                find_optimal_clusters(inp.profiles,
                                                      Min(8, inp.users \div 2),
                                                      inp.score)]))

\* predict_category on a trained categorizer, up to transform_features: the
\* scaler was fitted on the columns of the training frame (with dates) and
\* raises when the inference frame has another number of columns.
TransformFeatures ==
    /\ result.op = "transform_features"
    /\ LET fitted == numeric_features(result.input.train_user_id, "present")
           columns == numeric_features(result.input.user_id, result.input.date)
       IN  Returns("transform_features",
                   IF Len(columns) # Len(fitted)
                     THEN Raise("ValueError: X has a different number of features")
                     ELSE Ok(columns))

\* ModelTrainer.train_prediction_models on a new trainer: the loop over the
\* users and the save; the value holds the predictor and the artifact
\* directory the call leaves.
TrainPredictionModels ==
    /\ result.op = "train_prediction_models"
    /\ LET t == train_prediction_models(Trainer,
                                        [data |-> 1, users |-> result.input])
       IN  Returns("train_prediction_models",
                   Ok([predictor |-> t.st.p, disk |-> t.st.dk,
                       status |-> t.res.status]))

NextFn ==
    \/ CleanDescription
    \/ ExtractFeatures
    \/ GenerateCategoryRecommendations
    \/ DetectSpendingAnomalies
    \/ PredictedSpending
    \/ CategorizeAmount
    \/ SelectBestModel
    \/ FuturePeriods
    \/ FindOptimalClusters
    \/ TransformFeatures
    \/ TrainPredictionModels

SpecFn == InitFn /\ [][NextFn]_vars


\* =========================================================================
\* Claims
\* =========================================================================
\* what the categorizer serves: the objects predict_category reads
ServedModel(c) ==
    [estimator |-> Deref(c.models, c.best_model),
     best_model_name |-> c.best_model_name,
     model_performance |-> c.model_performance,
     category_mapping |-> c.category_mapping,
     preprocessor |-> c.preprocessor,
     is_trained |-> c.is_trained]

CatComplete(dk) == \A f \in CatFiles : Exists(dk, f)
WellTrained(c) ==
    c.is_trained /\ c.preprocessor.is_fitted /\ Deref(c.models, c.best_model).fit # "none"

\* C4: a train_models call that raises on a trained categorizer leaves the
\* served model (estimator, name, scorecard, mapping, scaler, vectorizer,
\* label encoder, trained flag) as it was, and predict_category answers as
\* before the call.
C4_FailedTrainKeepsModel ==
    [][(result'.op = "train_models" /\ result'.status = "raised"
        /\ categorizer.is_trained)
       => /\ ServedModel(categorizer') = ServedModel(categorizer)
          /\ Answers(categorizer') = Answers(categorizer)]_vars

\* C5: load_model on an artifact set with a file missing changes no field of
\* the categorizer.
C5_PartialLoadFailsClosed ==
    [][(result'.op = "load_model" /\ ~CatComplete(disk))
       => categorizer' = categorizer]_vars

\* what a load restored: the objects predict_category reads, and its answers
Restored(c, d) ==
    /\ Deref(c.models, c.best_model) = Deref(d.models, d.best_model)
    /\ c.best_model_name = d.best_model_name
    /\ c.category_mapping = d.category_mapping
    /\ c.preprocessor = d.preprocessor
    /\ Answers(c) = Answers(d)

\* C9: save_model followed by load_model, into the same or a fresh instance,
\* restores estimator, name, mapping, scaler, vectorizer and label encoder,
\* so predict_category answers every transaction as before the save; and
\* what load_model restores from a complete artifact set does not depend on
\* the instance it loads into.
C9_SaveLoadRoundTrip ==
    [][/\ (result'.op = "save_model" /\ result'.status = "ok")
            => /\ Restored(cat_load_model(categorizer, disk'), categorizer)
               /\ Restored(cat_load_model(CategorizerInit, disk'), categorizer)
       /\ (result'.op = "load_model" /\ CatComplete(disk))
            => Restored(categorizer', cat_load_model(CategorizerInit, disk))]_vars

\* C9, its case: a load from a complete artifact set has put a copy of the
\* saved estimator in place and predict_category answers
C9_Witness ==
    /\ result.op = "load_model"
    /\ CatComplete(disk)
    /\ categorizer.best_model.kind = "copy"
    /\ Answers(categorizer)[AllColumns].status = "ok"

\* C10: on a trained categorizer predict_category and get_category_suggestions
\* succeed for every transaction that has description, amount and date, and
\* fail with the missing-column error exactly when one of the three is absent.
C10_ThreeColumnsSuffice ==
    (result.op \in {"predict_category", "get_category_suggestions"}
     /\ WellTrained(categorizer))
    => IF RequiredColumns \subseteq result.input
         THEN result.status = "ok"
         ELSE result.status = "raised" /\ result.error = "ValueError: required column"

\* C1: on data that passes validation train_all_models returns with an entry
\* for each of categorization, prediction and recommendation.
C1_EveryPipelineAttempted ==
    (result.op = "train_all_models" /\ result.input.valid)
    => /\ result.status = "ok"
       /\ result.value.categorization # Absent
       /\ result.value.prediction # Absent
       /\ result.value.recommendation # Absent

\* how a pipeline ended, where its entry leaves no doubt: the categorization
\* and recommendation entries by their status, the prediction entry by its
\* users (all trained, or none)
Ended(kind, entry) ==
    IF kind = "prediction"
      THEN IF \A i \in DOMAIN entry.users : entry.users[i] = "success" THEN "ok"
           ELSE IF \A i \in DOMAIN entry.users : entry.users[i] # "success"
             THEN "failed"
           ELSE "unclear"
      ELSE IF entry.status = "success" THEN "ok"
           ELSE IF entry.status = "error" THEN "failed"
           ELSE "unclear"
EndedAll(v) ==
    [k \in {"categorization", "prediction", "recommendation"} |->
        Ended(k, CASE k = "categorization" -> v.categorization
                   [] k = "prediction" -> v.prediction
                   [] OTHER -> v.recommendation)]
EndedOk(v) == Cardinality({k \in DOMAIN EndedAll(v) : EndedAll(v)[k] = "ok"})

\* C2: a train_all_models run on valid data reports success when all three
\* pipelines ended ok, partial_failure when two did, failure when fewer did
\* (runs with a skipped categorization or a mixed prediction loop aside).
C2_OverallStatus ==
    (/\ result.op = "train_all_models"
     /\ result.input.valid
     /\ result.status = "ok"
     /\ \A k \in DOMAIN EndedAll(result.value) : EndedAll(result.value)[k] # "unclear")
    => result.value.overall_status =
          IF EndedOk(result.value) = 3 THEN "success"
          ELSE IF EndedOk(result.value) = 2 THEN "partial_failure"
          ELSE "failure"

\* the answer of predict_category comes from one complete model: estimator
\* fitted on the full data of the run whose vectorizer, scaler, label encoder
\* and category mapping it is paired with
CompleteModel(v) ==
    /\ v.estimator.fit = "full"
    /\ v.tfidf_vectorizer = v.estimator.run
    /\ v.scaler = v.estimator.run
    /\ v.label_encoder = v.estimator.run
    /\ v.category_mapping = v.estimator.run

\* C3: a predict_category call that runs while a train is in flight answers
\* from the complete previous model or the complete new one.
C3_AtomicReplacement ==
    (result.op = "predict_category" /\ result.status = "ok")
    => CompleteModel(result.value)

\* C6: no evaluate function changes the model it scores.
EvaluateOps == {"evaluate_categorization_model", "evaluate_prediction_model",
                "evaluate_recommendation_engine"}
C6_EvaluateReadOnly ==
    [][result'.op \in EvaluateOps
       => /\ categorizer' = categorizer
          /\ predictor' = predictor
          /\ recommender' = recommender]_vars

\* C7: train_all_models on invalid data returns the validation error, runs no
\* pipeline and leaves categorizer, predictor, recommender, artifacts and
\* training history as they were.
C7_InvalidDataChangesNothing ==
    [][(result'.op = "train_all_models" /\ ~result'.input.valid)
       => /\ result'.status = "ok"
          /\ result'.error = "Data validation failed"
          /\ ~result'.value.is_valid
          /\ result'.value.categorization = Absent
          /\ result'.value.prediction = Absent
          /\ result'.value.recommendation = Absent
          /\ UNCHANGED <<categorizer, predictor, recommender, disk,
                         training_history>>]_vars

\* C7, its case: invalid data handed to a trainer whose models are trained
\* and whose history is not empty
C7_Witness ==
    /\ result.op = "train_all_models"
    /\ ~result.input.valid
    /\ categorizer.is_trained
    /\ predictor.is_trained
    /\ training_history # <<>>

\* C8: an inference call on a component that is neither trained nor loaded
\* raises the not-trained error and changes nothing.
NotTrainedErrors == {"ValueError: Model not trained", "ValueError: Model not fitted"}
C8_UntrainedInferenceFails ==
    [][(\/ result'.op \in {"predict_category", "get_category_suggestions"}
           /\ ~categorizer.is_trained
        \/ result'.op = "predict_future_spending" /\ ~predictor.is_trained
        \/ result'.op = "generate_budget_recommendations" /\ ~recommender.is_fitted)
       => /\ result'.status = "raised"
          /\ result'.error \in NotTrainedErrors
          /\ UNCHANGED <<categorizer, predictor, recommender, disk,
                         training_history>>]_vars

\* C11: clean_description is idempotent: cleaning a description that is
\* already the output of clean_description returns it unchanged.
C11_CleanIdempotent ==
    (result.op = "clean_description" /\ result.status = "ok")
        => clean_description(result.value) = result.value

\* C12: with the balanced style and a positive target budget, the recommended
\* amounts of the categories sum to at most the target budget (amounts are in
\* units of 1/(100 * PctParts) of a currency unit, so the target budget is
\* 100 * PctParts * target_budget of them).
C12_WithinTargetBudget ==
    (result.op = "generate_category_recommendations" /\ result.status = "ok")
        => result.value["Food & Dining"].recommended_amount
           + result.value["Transportation"].recommended_amount
           + result.value["Entertainment"].recommended_amount
           + result.value["Rent"].recommended_amount
              <= 100 * PctParts * result.input.target_budget

\* C13: the training history is append-only and complete: a train_all_models
\* run on valid data keeps the records that were there and adds exactly one
\* record for each of categorization, prediction and recommendation, to the
\* in-memory history and to the log file.
LogRecords(dk) == IF dk[LogFile].present THEN dk[LogFile].v ELSE <<>>
AddsOnePerPipeline(old, new) ==
    /\ Len(new) = Len(old) + 3
    /\ SubSeq(new, 1, Len(old)) = old
    /\ \A m \in {"categorization", "prediction", "recommendation"} :
          \E i \in (Len(old) + 1)..Len(new) : new[i].model_type = m
C13_HistoryAppendOnlyComplete ==
    [][(result'.op = "train_all_models" /\ result'.input.valid)
       => /\ AddsOnePerPipeline(training_history, training_history')
          /\ AddsOnePerPipeline(LogRecords(disk), LogRecords(disk'))]_vars

\* C14: each evaluate function called on a model that is not trained or not
\* fitted returns a result with an error entry and does not raise; a batch
\* evaluation returns, for every model that is ready, the result of that
\* model's evaluation, whichever other models are not ready (unless the
\* evaluation of a ready model itself raised).
ErrorEntry(r) == r.status = "ok" /\ r.value.error # "none"
C15_TooFewRowsKeepsModel ==
    [][(result'.op = "train_models" /\ result'.input.raiseAt = "rows")
       => /\ result'.status = "raised"
          /\ categorizer'.is_trained = categorizer.is_trained
          /\ ServedModel(categorizer') = ServedModel(categorizer)]_vars

\* C16: create_user_clusters on data with fewer than five users raises and
\* leaves the clustering model, the cluster assignment, the cluster profiles,
\* the scaler and the fitted flag as they were.
C16_TooFewUsersRaises ==
    [][(result'.op = "create_user_clusters" /\ result'.input.users = "few")
       => /\ result'.status = "raised"
          /\ recommender' = recommender]_vars

\* C17: on a series of at least ten periods with exactly one period spiking
\* five standard deviations above the otherwise regular spending,
\* detect_spending_anomalies with threshold 2.0 returns exactly that period,
\* with anomaly_type high and severity high.
C17_SpikeFlaggedHigh ==
    (result.op = "detect_spending_anomalies" /\ result.status = "ok")
        => result.value = {[period |-> result.input.spike,
                            anomaly_type |-> "high", severity |-> "high"]}

\* C18: every prediction returned by predict_future_spending is at least 0,
\* whatever the model put out, and every confidence interval satisfies
\* 0 <= lower <= prediction <= upper (bounds in hundredths).
C18_PredictionsNonNegative ==
    (result.op = "predict_future_spending" /\ result.status = "ok")
        => \A i \in DOMAIN result.value.predictions :
              /\ result.value.predictions[i] >= 0
              /\ 0 <= result.value.confidence_intervals[i][1]
              /\ result.value.confidence_intervals[i][1]
                    <= 100 * result.value.predictions[i]
              /\ 100 * result.value.predictions[i]
                    <= result.value.confidence_intervals[i][2]

\* C18, its case: the model put out a negative value and the error estimate
\* exceeds another, positive prediction
C18_Witness ==
    /\ result.op = "predict_future_spending"
    /\ result.status = "ok"
    /\ \E i \in DOMAIN result.input.outputs : result.input.outputs[i] < 0
    /\ \E i \in DOMAIN result.input.outputs :
          /\ result.input.outputs[i] > 0
          /\ 196 * result.input.error_estimate > 100 * result.input.outputs[i]

\* C19: for every combination of present or null description, amount and
\* date, feature extraction returns without raising and the feature set has
\* the keys it has for a fully populated row.
C19_CompleteFeatureKeys ==
    result.op = "extract_features"
        => /\ result.status # "raised"
           /\ result.status = "ok" =>
                result.value = extract_features([description |-> "present",
                                                 amount |-> "present",
                                                 date |-> "present"])

\* C20: auto_categorize_transaction stores a prediction record exactly when
\* the categorizer is trained and its confidence for the transaction is above
\* 0.5 (5 tenths); otherwise nothing is stored and the ML fields of the
\* transaction are not set.
C20_StoredIffConfident ==
    [][result'.op = "auto_categorize_transaction"
       => /\ result'.value.stored
               <=> (categorizer.is_trained /\ result'.input.confidence > 5)
          /\ ~(categorizer.is_trained /\ result'.input.confidence > 5)
               => ~result'.value.ml_prediction_set]_vars

\* C21: amount binning is total and monotonic: a non-negative amount is small
\* below 10, medium below 50, large below 200 and very_large from 200 on (so
\* 9.99 is small, 10.00 medium, 199.99 large, 200.00 very_large), and an
\* amount one cent larger never gets a lower bin.
BinRank(b) ==
    CASE b = "small" -> 1 [] b = "medium" -> 2 [] b = "large" -> 3
      [] b = "very_large" -> 4
C21_AmountBinning ==
    (result.op = "categorize_amount" /\ result.status = "ok")
        => /\ result.value \in {"small", "medium", "large", "very_large"}
           /\ result.value = "small" <=> result.input <= 999
           /\ result.value = "medium"
                <=> (1000 <= result.input /\ result.input <= 4999)
           /\ result.value = "large"
                <=> (5000 <= result.input /\ result.input <= 19999)
           /\ result.value = "very_large" <=> result.input >= 20000
           /\ result.input > 0
                => BinRank(categorize_amount(result.input - 1))
                     <= BinRank(result.value)

\* C21, its case: the amount 200.00 was binned
C21_Witness ==
    /\ result.op = "categorize_amount"
    /\ result.status = "ok"
    /\ result.input = 20000
    /\ result.value = "very_large"

\* C22: a candidate whose training raised is never selected: when a candidate
\* trained successfully, the best model of a completed train_models call is a
\* candidate that trained successfully; when every candidate failed, the call
\* leaves the served model as it was and the categorizer is not marked
\* trained by it.
C22_FailedCandidateNeverServed ==
    [][result'.op = "train_models"
       => /\ (/\ result'.status = "ok"
              /\ \E n \in CatNameSet : result'.input.out[n] >= 0)
               => result'.input.out[categorizer'.best_model_name] >= 0
          /\ (\A n \in CatNameSet : result'.input.out[n] = -1)
               => /\ categorizer'.best_model = categorizer.best_model
                  /\ categorizer'.best_model_name = categorizer.best_model_name
                  /\ categorizer'.is_trained = categorizer.is_trained]_vars

\* C23: the selected best model has the highest recorded cross-validation
\* accuracy (categorizer) or the lowest recorded cross-validated error
\* (predictor), and among the candidates tying on that score it is the first
\* in iteration order.
Position(names, n) == CHOOSE i \in 1..Len(names) : names[i] = n
FirstBest(names, score, best) ==
    /\ \A n \in DOMAIN score : score[n] <= score[best]
    /\ \A n \in DOMAIN score :
          Position(names, n) < Position(names, best) => score[n] < score[best]
C23_BestModelSelection ==
    (result.op = "select_best_model" /\ result.status = "ok")
        => IF result.input.component = "categorizer"
             THEN FirstBest(CatNames, CandidateScores(result.input.out),
                            result.value)
             ELSE FirstBest(PredNames,
                            [n \in PredNameSet |->
                                -CandidateErrors(result.input.out)[n]],
                            result.value)

\* C23, its case: the second and the third candidate of the categorizer tie
\* on the highest accuracy, above the first
C23_Witness ==
    /\ result.op = "select_best_model"
    /\ result.status = "ok"
    /\ result.input.component = "categorizer"
    /\ result.input.out["logistic_regression"] = result.input.out["naive_bayes"]
    /\ result.input.out["random_forest"] < result.input.out["naive_bayes"]
    /\ result.input.out["random_forest"] >= 0
    /\ result.value = "logistic_regression"


\* The features of a future row that do not come from its date.
Historical(row) ==
    [total_spending_lag |-> row.total_spending_lag,
     roll_sum |-> row.roll_sum,
     spending_trend |-> row.spending_trend,
     spending_trend_3period |-> row.spending_trend_3period]

\* C24: in one predict_future_spending call the lag, rolling and trend
\* features of every future row are those of the trailing historical
\* periods: the first lag is the last historical total, the fourth the
\* fourth from last, and any two rows have the same historical features, so
\* the rows differ in their calendar features only.
C24_SameTrailingWindow ==
    (result.op = "future_periods" /\ result.status = "ok") =>
        LET rows == result.value.features
            dataset == result.input.dataset
            n == Len(dataset)
        IN  \A i \in DOMAIN rows :
                /\ \A lag \in 1..4 :
                       rows[i].total_spending_lag[lag] = dataset[n - lag + 1]
                /\ \A j \in DOMAIN rows :
                       Historical(rows[i]) = Historical(rows[j])

\* C24 witness: a forecast of three periods over a history whose last four
\* totals are not all equal, with rows of different calendar features.
C24_Witness ==
    /\ result.op = "future_periods"
    /\ result.status = "ok"
    /\ result.input.periods_ahead = 3
    /\ result.input.dataset[MinPeriods] # result.input.dataset[MinPeriods - 1]
    /\ result.value.features[1] # result.value.features[2]
    /\ Historical(result.value.features[1]) = Historical(result.value.features[3])


\* The index of the calendar period a date falls in: the day itself, the
\* week (weeks start on day 1, 8, ...) or the month.
PeriodIndex(period, date) ==
    CASE period = "day" -> date
      [] period = "week" -> (date - 1) \div 7
      [] period = "month" -> month(date)

\* C30: predict_future_spending returns as many dates as periods_ahead; the
\* dates are strictly increasing, the i-th date falls in the i-th period
\* after the last historical period, and so every date is later than the
\* last historical period.
C30_OneDatePerFuturePeriod ==
    (result.op = "future_periods" /\ result.status = "ok") =>
        LET dates == result.value.dates
            inp == result.input
        IN  /\ Len(dates) = inp.periods_ahead
            /\ Len(result.value.features) = inp.periods_ahead
            /\ \A i \in DOMAIN dates :
                   /\ i > 1 => dates[i] > dates[i - 1]
                   /\ PeriodIndex(inp.period, dates[i])
                          = PeriodIndex(inp.period, inp.last_period) + i


\* C25: when create_user_clusters chooses the number of clusters for at
\* least five valid profiles, the k it chooses is at least 2, at most
\* min(8, users div 2) and below the number of profiles clustered, and no
\* candidate within these limits has a higher silhouette score.
C25_ClusterCountInRange ==
    (/\ result.op = "find_optimal_clusters"
     /\ result.status = "ok"
     /\ result.value.error = "none") =>
        LET k == result.value.n_clusters
            inp == result.input
            limit == Min(8, inp.users \div 2)
        IN  /\ inp.profiles >= 5
            /\ 2 <= k
            /\ k <= limit
            /\ k < inp.profiles
            /\ \A c \in 2..limit :
                   c < inp.profiles => inp.score[c] <= inp.score[k]

\* C25 witness: MaxClusterUsers users of whom five have a valid profile; the
\* candidates end at 4 although min(8, users div 2) is 8, and 4 is chosen.
C25_Witness ==
    /\ result.op = "find_optimal_clusters"
    /\ result.status = "ok"
    /\ result.input.users = MaxClusterUsers
    /\ result.input.profiles = 5
    /\ result.value.error = "none"
    /\ result.value.n_clusters = 4
    /\ result.input.score[8] > result.input.score[2]


\* C26: for a trained categorizer, transform_features builds for every
\* inference row with the required columns the columns of fit time in the
\* order of fit time, whether or not the training rows and the inference row
\* carry user_id.
C26_SameColumnsAsFit ==
    (result.op = "transform_features" /\ result.status # "given"
     /\ result.input.date = "present") =>
        /\ result.status = "ok"
        /\ result.value = numeric_features(result.input.train_user_id, "present")


\* C27: after MLService starts with every artifact on disk, the categorizer,
\* predictor and recommender it serves from are the instances the artifacts
\* were loaded into, so that inference is available without a retrain.
C27_ServesLoadedInstances ==
    (/\ result.op = "ml_service_init"
     /\ \A f \in CatFiles \cup PredFiles \cup RecFiles : Exists(disk, f)) =>
        /\ result.value.categorizer = categorizer
        /\ result.value.predictor = predictor
        /\ result.value.recommender = recommender
        /\ result.value.categorizer.is_trained


\* the single slot of the predictor
PredSlot(p) ==
    [estimator |-> Deref(p.models, p.best_model),
     best_model_name |-> p.best_model_name,
     model_performance |-> p.model_performance,
     feature_columns |-> p.feature_columns]

\* C28: after train_prediction_models over several users the predictor's
\* slot (estimator, name, scorecard, feature columns) and the saved artifact
\* are those left by the last user with enough periods whose training
\* succeeded: the users after that one, who have too few periods or a
\* training error, change neither.
C28_SlotOfLastTrainedUser ==
    (result.op = "train_prediction_models" /\ result.status = "ok") =>
        LET users == result.input
            trained == {i \in DOMAIN users : users[i] = "success"}
            last == CHOOSE i \in trained : \A j \in trained : j <= i
            upto == train_prediction_models(Trainer,
                        [data |-> 1, users |-> SubSeq(users, 1, last)])
        IN  trained # {} =>
                /\ PredSlot(result.value.predictor) = PredSlot(upto.st.p)
                /\ result.value.disk = upto.st.dk


\* C29: train_categorization_model called without force_retrain while the
\* categorizer artifact exists returns 'skipped' and changes nothing: the
\* categorizer, the files on disk and the training history stay as they
\* were.
C29_SkipChangesNothing ==
    [][(/\ result'.op = "train_categorization_model"
        /\ ~result'.input.force_retrain
        /\ Exists(disk, CatModelFile))
         => /\ result'.status = "ok"
            /\ result'.value.status = "skipped"
            /\ categorizer' = categorizer
            /\ disk' = disk
            /\ training_history' = training_history]_vars

\* C29 witness: a call was skipped in a process started after the artifact
\* was written, on data the call would otherwise have trained on.
C29_Witness ==
    /\ result.op = "train_categorization_model"
    /\ ~result.input.force_retrain
    /\ result.input.tx.rows = "enough"
    /\ result.status = "ok"
    /\ result.value.status = "skipped"
    /\ Exists(disk, CatModelFile)
    /\ training_history = <<>>

====
